---- MODULE Spec2Model ----
(***************************************************************************)
(* The mtf_etf fund ledger (programs/mtf-etf/src/lib.rs): one ETF account  *)
(* per lister (a program-derived address seeded by the lister's key), and  *)
(* the four instructions initialize_etf, buy_etf, sell_etf and close_etf.  *)
(* Each instruction runs as one transaction: the handler works on the      *)
(* accounts it was given and an Err return makes the runtime discard every *)
(* change the transaction made.  Lamport amounts are scaled down; the      *)
(* fee divisor, the percentage total and the token limit are the code's.   *)
(* Event timestamps (Clock::get) are left out of the events.               *)
(***************************************************************************)
EXTENDS Integers, Sequences, FiniteSets, TLC

\* ------------------------------------------------------------------ bounds
\* Largest value of the (scaled) unsigned lamport / supply word.
U64Max == 4095
\* Rent-exempt minimum of an ETF account (Rent::minimum_balance), scaled.
MinRent == 10
\* Lamports the listers' wallets and the other wallets hold at the start;
\* the dev wallet starts empty.
StartLamports == 458
InvestorLamports == 448
\* Amounts offered to buy_etf and sell_etf: below the fee threshold, and
\* two that carry fees.
AmountSmall == 150
AmountMid == 200
AmountBig == 450
\* Most successful transactions the log holds before the model stops
\* submitting transactions.
MaxLog == 3

\* -------------------------------------------------------- program constants
FeeDivisor == 200
PercentTotal == 100
MaxTokenCount == 10
U16Modulus == 65536
U8Modulus == 256

DEV_WALLET == "dev"
NoKey == "none"

Wallets == {"alice", "bob", DEV_WALLET}
Signers == {"alice", "bob"}
\* The accounts a caller passes as dev_wallet.
FeeWallets == {DEV_WALLET, "bob"}
\* The listers whose ETF account (PDA of ["etf", lister]) the model holds.
Listers == {"alice"}

\* Token address lists offered to initialize_etf: [1..n], and one with a
\* duplicate.
TokenList(n) == [i \in 1..n |-> i]
TokenLists ==
  { TokenList(0), TokenList(1), TokenList(2), <<1, 1>>,
    TokenList(MaxTokenCount), TokenList(MaxTokenCount + 1) }

\* Percentage lists (u8 each) offered to buy_etf.
PercentageLists ==
  { <<100>>, <<50>>, <<50, 50>>, <<33, 67>>, <<50, 30>>, <<200, 156>>,
    [i \in 1..MaxTokenCount |-> 10] }

BuyAmounts == {0, AmountSmall, AmountMid, AmountBig}
Net(q) == q - 2 * (q \div FeeDivisor)
SellAmounts == {0, AmountSmall, AmountMid, Net(AmountMid), Net(AmountBig)}

VARIABLES
  lamports,      \* wallet -> lamports of the system account
  etf_lamports,  \* lister -> lamports of that lister's ETF account
  etf,           \* lister -> the ETF account's data (struct ETF), or closed
  log,           \* per successful transaction, the events it emitted
  last,          \* the transaction just processed and its result, or NoCall
  minted,        \* history: per ETF, tokens minted by the buys that succeeded
  burned,        \* history: per ETF, tokens burned by the sells that succeeded
  minted_to,     \* history: per signer, tokens minted by its own buys
  redeemed_by    \* history: per signer, tokens burned by its own sells

vars ==
  <<lamports, etf_lamports, etf, log, last, minted, burned, minted_to,
    redeemed_by>>

\* ------------------------------------------------------------ the accounts
\* struct ETF; live is the account's existence (discriminator written,
\* owned by the program).
ClosedETF ==
  [live |-> FALSE, lister |-> NoKey, token_addresses |-> <<>>,
   total_supply |-> 0, accumulated_fees |-> 0]

\* What a transaction reads and writes.
World ==
  [lamports |-> lamports, etf_lamports |-> etf_lamports, etf |-> etf,
   log |-> log]

Ok == "Ok"
Result(e, w) == [err |-> e, w |-> w]

Event(kind, f, who, token, amount, pct, fee_type) ==
  [kind |-> kind, etf_address |-> f, who |-> who, token_address |-> token,
   amount |-> amount, percentage |-> pct, fee_type |-> fee_type]

\* emit!: the event joins the events of the running transaction.
emit(w, e) == [w EXCEPT !.log[Len(w.log)] = Append(@, e)]

\* A transaction starts with no events of its own.
Begin(w) == [w EXCEPT !.log = Append(@, <<>>)]

\* system_instruction::transfer between two wallets.
transfer(w, from, to, amount) ==
  IF w.lamports[from] < amount
    THEN Result("InsufficientLamports", w)
    ELSE Result(Ok,
           [w EXCEPT !.lamports =
              [[@ EXCEPT ![from] = @ - amount] EXCEPT ![to] = @ + amount]])

\* system_instruction::transfer from a wallet to an ETF account.
transfer_to_etf(w, from, f, amount) ==
  IF w.lamports[from] < amount
    THEN Result("InsufficientLamports", w)
    ELSE Result(Ok,
           [w EXCEPT !.lamports[from] = @ - amount,
                     !.etf_lamports[f] = @ + amount])

\* Mutant: the addition wraps around in the u64.
checked_add_wrapping(a, b) == (a + b) % (U64Max + 1)

\* u64::checked_add / checked_sub: -1 stands for None.
checked_add(a, b) == IF a + b > U64Max THEN -1 ELSE a + b
\* Mutant: a difference of zero counts as an underflow.
checked_sub_strict(a, b) == IF a <= b THEN -1 ELSE a - b
checked_sub(a, b) == IF a < b THEN -1 ELSE a - b

\* Mutant: init_if_needed, an account that exists is taken as it is.
InitializeETF_accounts_IfNeeded(w, f, lister) ==
  IF f # lister THEN Result("ConstraintSeeds", w)
  ELSE LET need == IF w.etf_lamports[f] >= MinRent THEN 0
                   ELSE MinRent - w.etf_lamports[f]
       IN transfer_to_etf(w, lister, f, need)

\* ---------------------------------------------------------- initialize_etf
\* #[account(init, payer = lister, seeds = [b"etf", lister], bump)]: the
\* address must be the lister's PDA, the account must not exist yet, and the
\* lister pays what the account lacks to be rent exempt.
InitializeETF_accounts(w, f, lister) ==
  IF f # lister THEN Result("ConstraintSeeds", w)
  ELSE IF w.etf[f].live THEN Result("AccountAlreadyInUse", w)
  ELSE LET need == IF w.etf_lamports[f] >= MinRent THEN 0
                   ELSE MinRent - w.etf_lamports[f]
       IN transfer_to_etf(w, lister, f, need)

\* Mutant: the upper limit of the token count is not checked.
ValidTokenCount_NoUpper(token_addresses) == Len(token_addresses) > 0

\* token_addresses.len() > 0 && token_addresses.len() <= 10
ValidTokenCount(token_addresses) ==
  Len(token_addresses) > 0 /\ Len(token_addresses) <= MaxTokenCount

initialize_etf(w, f, lister, token_addresses) ==
  LET a == InitializeETF_accounts(w, f, lister) IN
  IF a.err # Ok THEN a
  ELSE IF ~ValidTokenCount(token_addresses)
    THEN Result("InvalidTokenCount", a.w)
  ELSE
    LET w1 == [a.w EXCEPT !.etf[f] =
                 [live |-> TRUE, lister |-> lister,
                  token_addresses |-> token_addresses,
                  total_supply |-> 0, accumulated_fees |-> 0]]
    IN Result(Ok, emit(w1, Event("ETFCreated", f, lister, 0,
                                 Len(token_addresses), 0, "none")))

\* ---------------------------------------------------------------- buy_etf
\* Mutant: the lister account passed is not compared with the ETF's lister.
FeeAccountsCheck_NoLister(w, f, lister_account, dev_wallet) ==
  IF dev_wallet # DEV_WALLET THEN "InvalidDevWallet" ELSE Ok

\* require!(dev_wallet.key() == DEV_WALLET, InvalidDevWallet) and then
\* require!(lister_account.key() == etf.lister, InvalidListerAccount), the
\* same in buy_etf and in sell_etf.
FeeAccountsCheck(w, f, lister_account, dev_wallet) ==
  IF dev_wallet # DEV_WALLET THEN "InvalidDevWallet"
  ELSE IF lister_account # w.etf[f].lister THEN "InvalidListerAccount"
  ELSE Ok

\* The sum of a list in an unsigned accumulator that wraps at modulus.
RECURSIVE SumMod(_, _)
SumMod(ps, modulus) ==
  IF Len(ps) = 0 THEN 0 ELSE (Head(ps) + SumMod(Tail(ps), modulus)) % modulus

\* Mutant: the percentages are summed in a u8.
total_percentage_u8(token_percentages) == SumMod(token_percentages, U8Modulus)

\* let total_percentage: u16 = token_percentages.iter().map(|&p| p as u16).sum()
total_percentage(token_percentages) == SumMod(token_percentages, U16Modulus)

\* Mutant: only the creator fee is taken off the amount.
BuyFees_OneFee(sol_amount) ==
  LET creator_fee == sol_amount \div FeeDivisor
      dev_fee == sol_amount \div FeeDivisor
  IN [creator_fee |-> creator_fee, dev_fee |-> dev_fee,
      sol_after_fees |-> sol_amount - creator_fee]

\* Mutant: one per cent is taken and then split between the two parties.
BuyFees_TotalThenSplit(sol_amount) ==
  LET total_fees == sol_amount \div PercentTotal
      creator_fee == total_fees \div 2
  IN [creator_fee |-> creator_fee, dev_fee |-> total_fees - creator_fee,
      sol_after_fees |-> sol_amount - total_fees]

\* creator_fee, dev_fee, total_fees and sol_after_fees of buy_etf.
BuyFees(sol_amount) ==
  LET creator_fee == sol_amount \div FeeDivisor
      dev_fee == sol_amount \div FeeDivisor
      total_fees == creator_fee + dev_fee
  IN [creator_fee |-> creator_fee, dev_fee |-> dev_fee,
      sol_after_fees |-> sol_amount - total_fees]

\* Mutant: a fee of 0 is not reported.
BuyFeeEvents_SkipZero(w, f, lister_account, dev_wallet, fees) ==
  LET w1 == IF fees.creator_fee = 0 THEN w
            ELSE emit(w, Event("FeeTransfer", f, lister_account, 0,
                               fees.creator_fee, 0, "Creator"))
  IN IF fees.dev_fee = 0 THEN w1
     ELSE emit(w1, Event("FeeTransfer", f, dev_wallet, 0, fees.dev_fee, 0,
                         "Dev"))

\* The two FeeTransferEvents, emitted whatever the fee amounts are.
BuyFeeEvents(w, f, lister_account, dev_wallet, fees) ==
  emit(emit(w, Event("FeeTransfer", f, lister_account, 0,
                     fees.creator_fee, 0, "Creator")),
       Event("FeeTransfer", f, dev_wallet, 0, fees.dev_fee, 0, "Dev"))

\* Mutant: the product is taken in the u64 and wraps before the division.
sol_for_token_u64(sol_after_fees, percentage) ==
  ((sol_after_fees * percentage) % (U64Max + 1)) \div PercentTotal

\* (sol_after_fees as u128 * percentage as u128 / 100) as u64
sol_for_token(sol_after_fees, percentage) ==
  ((sol_after_fees * percentage) \div PercentTotal) % (U64Max + 1)

\* One TokenPurchaseEvent per (token_address, percentage) pair of the zip.
RECURSIVE PurchaseEvents(_, _, _, _, _, _, _)
PurchaseEvents(w, f, investor, tokens, percentages, sol_after_fees, i) ==
  IF i > Len(tokens) \/ i > Len(percentages) THEN w
  ELSE PurchaseEvents(
         emit(w, Event("TokenPurchase", f, investor, tokens[i],
                       sol_for_token(sol_after_fees, percentages[i]),
                       percentages[i], "none")),
         f, investor, tokens, percentages, sol_after_fees, i + 1)

\* etf.total_supply = etf.total_supply.checked_add(tokens_to_mint)
\*   .ok_or(ErrorCode::InvalidAmount)?
BuyMint(w, f, tokens_to_mint) ==
  LET sum == checked_add(w.etf[f].total_supply, tokens_to_mint) IN
  IF sum = -1 THEN Result("InvalidAmount", w)
  ELSE Result(Ok, [w EXCEPT !.etf[f].total_supply = sum])

\* Mutant: the creator fee stays in the ETF account, to be claimed later.
BuyTransfers_AccumulateFees(w, f, investor, lister_account, dev_wallet, fees) ==
  LET t1 == transfer_to_etf(w, investor, f,
                            fees.sol_after_fees + fees.creator_fee) IN
  IF t1.err # Ok THEN t1 ELSE
  transfer(t1.w, investor, dev_wallet, fees.dev_fee)

\* The three transfers of buy_etf, each returning early on its error.
BuyTransfers(w, f, investor, lister_account, dev_wallet, fees) ==
  LET t1 == transfer_to_etf(w, investor, f, fees.sol_after_fees) IN
  IF t1.err # Ok THEN t1 ELSE
  LET t2 == transfer(t1.w, investor, lister_account, fees.creator_fee) IN
  IF t2.err # Ok THEN t2 ELSE
  transfer(t2.w, investor, dev_wallet, fees.dev_fee)

buy_etf(w, f, investor, lister_account, dev_wallet, sol_amount, token_percentages) ==
  IF ~w.etf[f].live THEN Result("AccountNotInitialized", w)
  ELSE IF ~(sol_amount > 0) THEN Result("InvalidAmount", w)
  ELSE IF Len(token_percentages) # Len(w.etf[f].token_addresses)
    THEN Result("InvalidTokenPercentages", w)
  ELSE IF total_percentage(token_percentages) # PercentTotal
    THEN Result("InvalidTokenPercentages", w)
  ELSE IF FeeAccountsCheck(w, f, lister_account, dev_wallet) # Ok
    THEN Result(FeeAccountsCheck(w, f, lister_account, dev_wallet), w)
  ELSE
    LET fees == BuyFees(sol_amount)
        t == BuyTransfers(w, f, investor, lister_account, dev_wallet, fees)
    IN
    IF t.err # Ok THEN t ELSE
    LET w4 == BuyFeeEvents(t.w, f, lister_account, dev_wallet, fees)
        w5 == PurchaseEvents(w4, f, investor, w.etf[f].token_addresses,
                             token_percentages, fees.sol_after_fees, 1)
    IN BuyMint(w5, f, fees.sol_after_fees)

\* --------------------------------------------------------------- sell_etf
\* Mutant: each fee is 1% instead of 0.5%.
SellFees_Percent(sol_to_return) ==
  LET creator_fee == sol_to_return \div PercentTotal
      dev_fee == sol_to_return \div PercentTotal
      total_fees == creator_fee + dev_fee
  IN [creator_fee |-> creator_fee, dev_fee |-> dev_fee,
      sol_after_fees |-> sol_to_return - total_fees]

\* creator_fee, dev_fee, total_fees and sol_after_fees of sell_etf.
SellFees(sol_to_return) ==
  LET creator_fee == sol_to_return \div FeeDivisor
      dev_fee == sol_to_return \div FeeDivisor
      total_fees == creator_fee + dev_fee
  IN [creator_fee |-> creator_fee, dev_fee |-> dev_fee,
      sol_after_fees |-> sol_to_return - total_fees]

\* Mutant: the supply check reports the error of the amount check.
SellSupplyCheck_WrongError(total_supply, tokens_to_sell) ==
  IF total_supply >= tokens_to_sell THEN Ok ELSE "InvalidAmount"

\* require!(etf.total_supply >= tokens_to_sell, InsufficientFunds)
SellSupplyCheck(total_supply, tokens_to_sell) ==
  IF total_supply >= tokens_to_sell THEN Ok ELSE "InsufficientFunds"

\* Mutant: the ETF account must hold more than the payout and the rent.
SellSolvent_Strict(etf_lamps, sol_to_return) ==
  etf_lamps > sol_to_return + MinRent

\* require!(etf_lamports >= sol_to_return + min_rent, InsufficientFunds)
SellSolvent(etf_lamps, sol_to_return) == etf_lamps >= sol_to_return + MinRent

\* Mutant: the investor is paid the gross amount.
SellPayout_Gross(w, f, investor, lister_account, dev_wallet, sol_to_return, fees) ==
  LET w1 == [w EXCEPT !.etf_lamports[f] = @ - sol_to_return]
      w2 == [w1 EXCEPT !.lamports[investor] = @ + sol_to_return]
      w3 == [w2 EXCEPT !.lamports[lister_account] = @ + fees.creator_fee]
  IN [w3 EXCEPT !.lamports[dev_wallet] = @ + fees.dev_fee]

\* Mutant: the fees are taken from the ETF account on top of the gross amount.
SellPayout_FeesOnTop(w, f, investor, lister_account, dev_wallet, sol_to_return, fees) ==
  LET w1 == [w EXCEPT !.etf_lamports[f] =
               @ - (sol_to_return + fees.creator_fee + fees.dev_fee)]
      w2 == [w1 EXCEPT !.lamports[investor] = @ + sol_to_return]
      w3 == [w2 EXCEPT !.lamports[lister_account] = @ + fees.creator_fee]
  IN [w3 EXCEPT !.lamports[dev_wallet] = @ + fees.dev_fee]

\* The direct lamport moves of sell_etf.
SellPayout(w, f, investor, lister_account, dev_wallet, sol_to_return, fees) ==
  LET w1 == [w EXCEPT !.etf_lamports[f] = @ - sol_to_return]
      w2 == [w1 EXCEPT !.lamports[investor] = @ + fees.sol_after_fees]
      w3 == [w2 EXCEPT !.lamports[lister_account] = @ + fees.creator_fee]
  IN [w3 EXCEPT !.lamports[dev_wallet] = @ + fees.dev_fee]

\* Mutant: the new supply is computed and never stored.
SellBurn_NoWrite(w, f, tokens_to_sell) ==
  LET d == checked_sub(w.etf[f].total_supply, tokens_to_sell) IN
  IF d = -1 THEN Result("InvalidAmount", w) ELSE Result(Ok, w)

\* etf.total_supply = etf.total_supply.checked_sub(tokens_to_sell)
\*   .ok_or(ErrorCode::InvalidAmount)?
SellBurn(w, f, tokens_to_sell) ==
  LET d == checked_sub(w.etf[f].total_supply, tokens_to_sell) IN
  IF d = -1 THEN Result("InvalidAmount", w)
  ELSE Result(Ok, [w EXCEPT !.etf[f].total_supply = d])

sell_etf(w, f, investor, lister_account, dev_wallet, tokens_to_sell) ==
  IF ~w.etf[f].live THEN Result("AccountNotInitialized", w)
  ELSE IF ~(tokens_to_sell > 0) THEN Result("InvalidAmount", w)
  ELSE IF FeeAccountsCheck(w, f, lister_account, dev_wallet) # Ok
    THEN Result(FeeAccountsCheck(w, f, lister_account, dev_wallet), w)
  ELSE IF SellSupplyCheck(w.etf[f].total_supply, tokens_to_sell) # Ok
    THEN Result(SellSupplyCheck(w.etf[f].total_supply, tokens_to_sell), w)
  ELSE
    LET sol_to_return == tokens_to_sell
        fees == SellFees(sol_to_return)
    IN
    IF ~SellSolvent(w.etf_lamports[f], sol_to_return)
      THEN Result("InsufficientFunds", w)
    ELSE
      LET w1 == SellPayout(w, f, investor, lister_account, dev_wallet,
                           sol_to_return, fees)
          w2 == BuyFeeEvents(w1, f, lister_account, dev_wallet, fees)
      IN SellBurn(w2, f, tokens_to_sell)

\* -------------------------------------------------------------- close_etf
\* #[account(mut, close = lister, has_one = lister)]: checked before the
\* handler runs.
CloseETF_accounts(w, f, lister) ==
  IF ~w.etf[f].live THEN Result("AccountNotInitialized", w)
  ELSE IF w.etf[f].lister # lister THEN Result("ConstraintHasOne", w)
  ELSE Result(Ok, w)

\* Mutant: the supply is not looked at.
CloseChecks_NoSupply(w, f, lister) ==
  IF ~(lister = w.etf[f].lister) THEN "Unauthorized" ELSE Ok

\* The handler's own two checks.
CloseChecks(w, f, lister) ==
  IF ~(lister = w.etf[f].lister) THEN "Unauthorized"
  ELSE IF ~(w.etf[f].total_supply = 0) THEN "CannotCloseWithSupply"
  ELSE Ok

\* Mutant: without the close constraint the account stays as the handler
\* left it.
CloseETF_exit_NoClose(w, f, lister) == w

\* close = lister, on exit: what is left goes to the lister and the account
\* is gone.
CloseETF_exit(w, f, lister) ==
  [w EXCEPT !.lamports[lister] = @ + w.etf_lamports[f],
            !.etf_lamports[f] = 0,
            !.etf[f] = ClosedETF]

close_etf(w, f, lister) ==
  LET a == CloseETF_accounts(w, f, lister) IN
  IF a.err # Ok THEN a
  ELSE IF CloseChecks(w, f, lister) # Ok
    THEN Result(CloseChecks(w, f, lister), w)
  ELSE
    LET etf_lamps == w.etf_lamports[f]
        w1 == [w EXCEPT !.etf_lamports[f] = 0]
        w2 == [w1 EXCEPT !.lamports[lister] = @ + etf_lamps]
        w3 == emit(w2, Event("ETFClosed", f, lister, 0, 0, 0, "none"))
    IN Result(Ok, CloseETF_exit(w3, f, lister))

\* ------------------------------------------------------- the transactions
\* Mutant: what a failed transaction did up to its error stays.
Exec_NoRollback(w, r) == r.w

\* An instruction that returns Err fails its transaction, and the runtime
\* keeps none of the transaction's account changes and none of its events.
Exec(w, r) == IF r.err = Ok THEN r.w ELSE w

NoCall == [op |-> "none"]

Idle == last.op = "none"

Commit(call, r) ==
  LET w2 == Exec(World, r) IN
  /\ Len(w2.log) <= MaxLog
  /\ lamports' = w2.lamports
  /\ etf_lamports' = w2.etf_lamports
  /\ etf' = w2.etf
  /\ log' = w2.log
  /\ last' = [call EXCEPT !.err = r.err, !.pre = World]

Call(op, f, signer, lister_account, dev_wallet, amount, list) ==
  [op |-> op, etf |-> f, signer |-> signer, lister_account |-> lister_account,
   dev_wallet |-> dev_wallet, amount |-> amount, list |-> list,
   err |-> Ok, pre |-> World]

InitializeEtf(f, lister, token_addresses) ==
  /\ Idle
  /\ Commit(Call("initialize_etf", f, lister, NoKey, NoKey, 0, token_addresses),
            initialize_etf(Begin(World), f, lister, token_addresses))
  /\ UNCHANGED <<minted, burned, minted_to, redeemed_by>>

BuyEtf(f, investor, lister_account, dev_wallet, sol_amount, token_percentages) ==
  LET r == buy_etf(Begin(World), f, investor, lister_account, dev_wallet, sol_amount,
                   token_percentages)
  IN
  /\ Idle
  /\ Commit(Call("buy_etf", f, investor, lister_account, dev_wallet,
                 sol_amount, token_percentages), r)
  /\ minted' = IF r.err = Ok
                 THEN [minted EXCEPT ![f] = @ + BuyFees(sol_amount).sol_after_fees]
                 ELSE minted
  /\ minted_to' =
       IF r.err = Ok
         THEN [minted_to EXCEPT ![investor] = @ + BuyFees(sol_amount).sol_after_fees]
         ELSE minted_to
  /\ UNCHANGED <<burned, redeemed_by>>

SellEtf(f, investor, lister_account, dev_wallet, tokens_to_sell) ==
  LET r == sell_etf(Begin(World), f, investor, lister_account, dev_wallet,
                    tokens_to_sell)
  IN
  /\ Idle
  /\ Commit(Call("sell_etf", f, investor, lister_account, dev_wallet,
                 tokens_to_sell, <<>>), r)
  /\ burned' = IF r.err = Ok THEN [burned EXCEPT ![f] = @ + tokens_to_sell]
               ELSE burned
  /\ redeemed_by' =
       IF r.err = Ok THEN [redeemed_by EXCEPT ![investor] = @ + tokens_to_sell]
       ELSE redeemed_by
  /\ UNCHANGED <<minted, minted_to>>

CloseEtf(f, lister) ==
  /\ Idle
  /\ Commit(Call("close_etf", f, lister, NoKey, NoKey, 0, <<>>),
            close_etf(Begin(World), f, lister))
  /\ UNCHANGED <<minted, burned, minted_to, redeemed_by>>

\* The client has read the transaction's result.
Return ==
  /\ ~Idle
  /\ last' = NoCall
  /\ UNCHANGED <<lamports, etf_lamports, etf, log, minted, burned, minted_to,
                 redeemed_by>>

Init ==
  /\ lamports = [a \in Wallets |->
                   IF a \in Listers THEN StartLamports
                   ELSE IF a = DEV_WALLET THEN 0 ELSE InvestorLamports]
  /\ etf_lamports = [f \in Listers |-> 0]
  /\ etf = [f \in Listers |-> ClosedETF]
  /\ log = <<>>
  /\ last = NoCall
  /\ minted = [f \in Listers |-> 0]
  /\ burned = [f \in Listers |-> 0]
  /\ minted_to = [s \in Signers |-> 0]
  /\ redeemed_by = [s \in Signers |-> 0]

Next ==
  \/ \E f \in Listers, s \in Signers, t \in TokenLists : InitializeEtf(f, s, t)
  \/ \E f \in Listers, s \in Signers, l \in Signers, d \in FeeWallets,
        q \in BuyAmounts, p \in PercentageLists : BuyEtf(f, s, l, d, q, p)
  \/ \E f \in Listers, s \in Signers, l \in Signers, d \in FeeWallets,
        q \in SellAmounts : SellEtf(f, s, l, d, q)
  \/ \E f \in Listers, s \in Signers : CloseEtf(f, s)
  \/ Return

Spec == Init /\ [][Next]_vars

\* ------------------------------------------------------------ observations
\* The accounts and the log as the transaction in last found them.
Pre == last.pre
Succeeded(op) == last.op = op /\ last.err = Ok
Rejected(op) == last.op = op /\ last.err # Ok
\* A transaction on an ETF account that existed when it was submitted.
OnLiveEtf(op) == last.op = op /\ Pre.etf[last.etf].live
NothingChanged == World = Pre
\* The events of the newest successful transaction.
LastEvents == log[Len(log)]
FeeEventAmounts(fee_type) ==
  { LastEvents[i].amount : i \in
      { j \in DOMAIN LastEvents : /\ LastEvents[j].kind = "FeeTransfer"
                                  /\ LastEvents[j].fee_type = fee_type } }
Floor200(q) == q \div FeeDivisor
\* x if the two accounts are the same one, else nothing.
If(a, b, x) == IF a = b THEN x ELSE 0
\* The percentages added up without any wrap-around.
RECURSIVE TrueSum(_)
TrueSum(ps) == IF Len(ps) = 0 THEN 0 ELSE Head(ps) + TrueSum(Tail(ps))
FeeAddressesValid ==
  /\ last.dev_wallet = DEV_WALLET
  /\ last.lister_account = Pre.etf[last.etf].lister

\* ---------------------------------------------------------------------- C1
\* C1: the total supply of every ETF equals the tokens minted by its
\* successful buys minus the tokens burned by its successful sells, and a
\* failed transaction leaves the supply as it was.
C1_SupplyConservation ==
  /\ \A f \in Listers : etf[f].total_supply = minted[f] - burned[f]
  /\ (~Idle /\ last.err # Ok) =>
       \A f \in Listers : etf[f].total_supply = Pre.etf[f].total_supply

\* A sell went through after a buy and part of the supply is still out.
C1_Witness ==
  /\ Succeeded("sell_etf")
  /\ burned[last.etf] > 0
  /\ minted[last.etf] > burned[last.etf]

\* ---------------------------------------------------------------------- C2
\* C2, as claimed: a sell of more tokens than the total supply fails with
\* InsufficientSupply and changes nothing.
C2_Original ==
  (OnLiveEtf("sell_etf") /\ last.amount > Pre.etf[last.etf].total_supply) =>
    (last.err = "InsufficientSupply" /\ NothingChanged)

\* C2, amended: the total supply never leaves the unsigned range, and a sell
\* of more tokens than the total supply fails and changes nothing; its error
\* is InvalidDevWallet or InvalidListerAccount when that account is wrong,
\* and InsufficientFunds otherwise.
C2_NoNegativeSupply ==
  /\ \A f \in Listers : etf[f].total_supply \in 0..U64Max
  /\ (OnLiveEtf("sell_etf") /\ last.amount > Pre.etf[last.etf].total_supply) =>
       /\ NothingChanged
       /\ last.err = IF last.dev_wallet # DEV_WALLET THEN "InvalidDevWallet"
                     ELSE IF last.lister_account # Pre.etf[last.etf].lister
                       THEN "InvalidListerAccount"
                     ELSE "InsufficientFunds"

\* A sell of more than the supply of an ETF that has supply was turned down
\* by the supply check.
C2_Witness ==
  /\ OnLiveEtf("sell_etf")
  /\ Pre.etf[last.etf].total_supply > 0
  /\ last.amount > Pre.etf[last.etf].total_supply
  /\ FeeAddressesValid
  /\ last.err = "InsufficientFunds"

\* ---------------------------------------------------------------------- C3
\* C3: close_etf called by the ETF's lister fails with CannotCloseWithSupply
\* and changes nothing while the supply is positive; with a supply of 0 it
\* succeeds, the lister receives all the lamports of the ETF account (the
\* rent included), the ETF account is left with 0 and is gone, and no other
\* balance moves.
C3_CloseRequiresZeroSupply ==
  (OnLiveEtf("close_etf") /\ last.signer = Pre.etf[last.etf].lister) =>
    LET f == last.etf IN
    IF Pre.etf[f].total_supply > 0
      THEN last.err = "CannotCloseWithSupply" /\ NothingChanged
      ELSE /\ last.err = Ok
           /\ etf_lamports[f] = 0
           /\ ~etf[f].live
           /\ \A a \in Wallets :
                lamports[a] =
                  Pre.lamports[a] + If(a, last.signer, Pre.etf_lamports[f])

\* The lister closed an ETF whose account held its rent.
C3_Witness ==
  /\ Succeeded("close_etf")
  /\ Pre.etf_lamports[last.etf] >= MinRent
  /\ lamports[last.signer] > Pre.lamports[last.signer]

\* The lister was refused the close of an ETF with supply.
C3_WitnessRefused ==
  /\ Rejected("close_etf")
  /\ last.signer = Pre.etf[last.etf].lister
  /\ Pre.etf[last.etf].total_supply > 0

\* ---------------------------------------------------------------------- C4
\* C4, as claimed: close_etf called by anyone but the ETF's lister fails with
\* Unauthorized and changes nothing.
C4_Original ==
  (OnLiveEtf("close_etf") /\ last.signer # Pre.etf[last.etf].lister) =>
    (last.err = "Unauthorized" /\ NothingChanged)

\* What the code does keep of C4: such a close fails and changes nothing.
C4_OnlyListerCloses ==
  (OnLiveEtf("close_etf") /\ last.signer # Pre.etf[last.etf].lister) =>
    (last.err = "ConstraintHasOne" /\ NothingChanged)

\* ---------------------------------------------------------------------- C5
BadPercentages ==
  \/ Len(last.list) # Len(Pre.etf[last.etf].token_addresses)
  \/ TrueSum(last.list) # PercentTotal

\* C5, as claimed: a buy whose percentage list has another length than the
\* token list, or whose percentages do not truly add up to 100, fails with
\* InvalidTokenPercentages (the spec's InvalidWeights); a buy succeeds only
\* with percentages adding up to 100.
C5_Original ==
  /\ (OnLiveEtf("buy_etf") /\ BadPercentages) =>
       last.err = "InvalidTokenPercentages"
  /\ Succeeded("buy_etf") => TrueSum(last.list) = PercentTotal

\* C5, amended: the same for a buy of an amount above 0 (a buy of 0 fails
\* with InvalidAmount whatever its percentages are).
C5_WeightSum ==
  /\ (OnLiveEtf("buy_etf") /\ last.amount > 0 /\ BadPercentages) =>
       (last.err = "InvalidTokenPercentages" /\ NothingChanged)
  /\ (OnLiveEtf("buy_etf") /\ last.amount = 0) => last.err = "InvalidAmount"
  /\ Succeeded("buy_etf") =>
       /\ Len(last.list) = Len(Pre.etf[last.etf].token_addresses)
       /\ TrueSum(last.list) = PercentTotal

\* A buy with percentages 200 and 156 (100 modulo 256) on a two-token ETF
\* was turned down.
C5_Witness ==
  /\ OnLiveEtf("buy_etf")
  /\ last.amount > 0
  /\ Len(last.list) = Len(Pre.etf[last.etf].token_addresses)
  /\ TrueSum(last.list) # PercentTotal
  /\ TrueSum(last.list) % U8Modulus = PercentTotal
  /\ last.err = "InvalidTokenPercentages"

\* ---------------------------------------------------------------------- C6
\* C6: a successful buy of amount q and a successful sell of q tokens charge
\* the same split: one creator fee and one dev fee of floor(q/200) each
\* (as the fee events report them), the net q - 2*floor(q/200) reaching the
\* ETF account on a buy and leaving it, fees aside, on a sell; below 200 both
\* fees are 0 and the net is q; the two handlers' fee computations agree on q.
C6_FeeDeterminism ==
  (Succeeded("buy_etf") \/ Succeeded("sell_etf")) =>
    LET q == last.amount
        f == last.etf
        net == q - 2 * Floor200(q)
    IN
    /\ q > 0
    /\ FeeEventAmounts("Creator") = {Floor200(q)}
    /\ FeeEventAmounts("Dev") = {Floor200(q)}
    /\ Len(SelectSeq(LastEvents, LAMBDA e : e.kind = "FeeTransfer")) = 2
    /\ BuyFees(q) = SellFees(q)
    /\ BuyFees(q).sol_after_fees = net
    /\ q < FeeDivisor => (FeeEventAmounts("Creator") = {0} /\ net = q)
    /\ Succeeded("buy_etf") => etf_lamports[f] = Pre.etf_lamports[f] + net
    /\ Succeeded("sell_etf") =>
         \A a \in Wallets :
           lamports[a] = Pre.lamports[a] + If(a, last.signer, net)
                         + If(a, last.lister_account, Floor200(q))
                         + If(a, last.dev_wallet, Floor200(q))

\* A sell of as many tokens as the fee divisor, paying fees above 0.
C6_Witness ==
  /\ Succeeded("sell_etf")
  /\ last.amount = AmountMid
  /\ FeeEventAmounts("Creator") = {Floor200(AmountMid)}
  /\ Floor200(AmountMid) > 0

\* ---------------------------------------------------------------------- C7
\* C7: a successful buy of amount a takes exactly a from the investor, adds
\* a - 2*floor(a/200) to the ETF account and to the total supply, adds
\* floor(a/200) to the lister and to the dev wallet, and changes nothing
\* else of the accounts.
C7_DepositEffect ==
  Succeeded("buy_etf") =>
    LET a == last.amount
        f == last.etf
        net == a - 2 * Floor200(a)
    IN
    /\ \A x \in Wallets :
         lamports[x] = Pre.lamports[x] - If(x, last.signer, a)
                       + If(x, Pre.etf[f].lister, Floor200(a))
                       + If(x, DEV_WALLET, Floor200(a))
    /\ etf_lamports = [Pre.etf_lamports EXCEPT ![f] = @ + net]
    /\ etf = [Pre.etf EXCEPT ![f].total_supply = @ + net]

\* Someone other than the lister and the dev wallet bought for an amount
\* that carries fees.
C7_Witness ==
  /\ Succeeded("buy_etf")
  /\ last.amount >= FeeDivisor
  /\ last.signer # Pre.etf[last.etf].lister
  /\ lamports[DEV_WALLET] > Pre.lamports[DEV_WALLET]

\* ---------------------------------------------------------------------- C8
\* C8: a successful sell of s tokens takes exactly s from the ETF account
\* (the fees come out of s), adds s - 2*floor(s/200) to the investor and
\* floor(s/200) to the lister and to the dev wallet, and lowers the total
\* supply by exactly s.
C8_RedeemEffect ==
  Succeeded("sell_etf") =>
    LET s2 == last.amount
        f == last.etf
        net == s2 - 2 * Floor200(s2)
    IN
    /\ etf_lamports = [Pre.etf_lamports EXCEPT ![f] = @ - s2]
    /\ \A x \in Wallets :
         lamports[x] = Pre.lamports[x] + If(x, last.signer, net)
                       + If(x, Pre.etf[f].lister, Floor200(s2))
                       + If(x, DEV_WALLET, Floor200(s2))
    /\ etf = [Pre.etf EXCEPT ![f].total_supply = @ - s2]

\* Someone other than the lister and the dev wallet sold tokens for an
\* amount that carries fees.
C8_Witness ==
  /\ Succeeded("sell_etf")
  /\ last.amount >= FeeDivisor
  /\ last.signer # Pre.etf[last.etf].lister
  /\ lamports[DEV_WALLET] > Pre.lamports[DEV_WALLET]

\* ---------------------------------------------------------------------- C9
ReserveKept == \A f \in Listers : etf[f].live => etf_lamports[f] >= MinRent
BelowReserve ==
  /\ OnLiveEtf("sell_etf")
  /\ Pre.etf_lamports[last.etf] < last.amount + MinRent

\* C9, as claimed: a live ETF account always holds at least the rent
\* minimum, and a sell that would take it below fails with InsufficientFunds
\* and changes nothing.
C9_Original ==
  /\ ReserveKept
  /\ BelowReserve => (last.err = "InsufficientFunds" /\ NothingChanged)

\* C9, amended: a live ETF account always holds at least the rent minimum,
\* and a sell that would take it below fails and changes nothing, with
\* InsufficientFunds when the dev wallet and lister account passed are the
\* right ones (with InvalidDevWallet or InvalidListerAccount otherwise).
C9_ReserveFloor ==
  /\ ReserveKept
  /\ BelowReserve =>
       /\ NothingChanged
       /\ last.err = IF last.dev_wallet # DEV_WALLET THEN "InvalidDevWallet"
                     ELSE IF last.lister_account # Pre.etf[last.etf].lister
                       THEN "InvalidListerAccount"
                     ELSE "InsufficientFunds"

\* A sell whose amount plus the rent exceeds what the ETF account holds
\* after a buy was turned down.
C9_Witness ==
  /\ BelowReserve
  /\ FeeAddressesValid
  /\ Pre.etf_lamports[last.etf] > MinRent
  /\ last.err = "InsufficientFunds"

\* --------------------------------------------------------------------- C10
\* C10: a transaction that fails leaves every balance, every ETF account
\* (total supply included) and the event log as they were before it.
C10_AtomicOnFailure ==
  (~Idle /\ last.err # Ok) => NothingChanged

\* A buy failed at its third transfer, after the first two had moved
\* lamports.
C10_Witness ==
  /\ Rejected("buy_etf")
  /\ last.err = "InsufficientLamports"
  /\ BuyFees(last.amount).creator_fee > 0
  /\ Pre.lamports[last.signer] >=
       BuyFees(last.amount).sol_after_fees + BuyFees(last.amount).creator_fee
  /\ last.signer # last.lister_account

\* --------------------------------------------------------------------- C11
\* Every creator fee reported went to the lister of its ETF (the lister
\* whose key seeds the ETF's address) and every dev fee to DEV_WALLET, and a
\* buy or sell that succeeded was given exactly those two accounts.
FeesReachOwners ==
  /\ \A t \in DOMAIN log : \A i \in DOMAIN log[t] :
       LET e == log[t][i] IN
       e.kind = "FeeTransfer" =>
         e.who = IF e.fee_type = "Creator" THEN e.etf_address ELSE DEV_WALLET
  /\ (Succeeded("buy_etf") \/ Succeeded("sell_etf")) => FeeAddressesValid

WrongFeeAccount ==
  /\ OnLiveEtf("buy_etf") \/ OnLiveEtf("sell_etf")
  /\ ~FeeAddressesValid

\* C11, as claimed: a buy or sell fails with InvalidListerAccount (the spec's
\* InvalidFeeRecipient) when the lister account passed is not the ETF's
\* lister and with InvalidDevWallet (InvalidOperatorAddress) when the dev
\* wallet passed is not DEV_WALLET; fees only ever reach the ETF's lister
\* and DEV_WALLET.
C11_Original ==
  /\ WrongFeeAccount =>
       /\ last.lister_account # Pre.etf[last.etf].lister =>
            last.err = "InvalidListerAccount"
       /\ last.dev_wallet # DEV_WALLET => last.err = "InvalidDevWallet"
  /\ FeesReachOwners

\* The checks of a buy or sell that run before the two account checks pass.
EarlierChecksPass ==
  /\ last.amount > 0
  /\ last.op = "buy_etf" => ~BadPercentages

\* C11, amended: a buy or sell that passes the earlier checks (amount above
\* 0 and, for a buy, valid percentages) fails, changing nothing, with
\* InvalidDevWallet when the dev wallet passed is not DEV_WALLET, and with
\* InvalidListerAccount when the dev wallet is right and the lister account
\* passed is not the ETF's lister; fees only ever reach the ETF's lister and
\* DEV_WALLET.
C11_FeeDestinations ==
  /\ (WrongFeeAccount /\ EarlierChecksPass) =>
       /\ NothingChanged
       /\ last.err = IF last.dev_wallet # DEV_WALLET THEN "InvalidDevWallet"
                     ELSE "InvalidListerAccount"
  /\ WrongFeeAccount => last.err # Ok
  /\ FeesReachOwners

\* A buy that named someone else than the lister as the lister account, and
\* was otherwise in order, was turned down.
C11_Witness ==
  /\ OnLiveEtf("buy_etf")
  /\ EarlierChecksPass
  /\ last.dev_wallet = DEV_WALLET
  /\ last.lister_account # Pre.etf[last.etf].lister
  /\ last.err = "InvalidListerAccount"

\* --------------------------------------------------------------------- C12
\* initialize_etf on the signer's own ETF address (the only address its
\* seeds allow).
OwnInitialize == last.op = "initialize_etf" /\ last.etf = last.signer
CountInRange(list) == Len(list) >= 1 /\ Len(list) <= MaxTokenCount
AllCountsInRange ==
  \A f \in Listers : etf[f].live => CountInRange(etf[f].token_addresses)
\* The ETF account as a successful initialize_etf leaves it.
Created ==
  /\ last.err = Ok
  /\ etf[last.etf] = [live |-> TRUE, lister |-> last.signer,
                      token_addresses |-> last.list, total_supply |-> 0,
                      accumulated_fees |-> 0]

\* C12, as claimed: initialize_etf fails with InvalidTokenCount (the spec's
\* InvalidAssetCount) and creates nothing when the token list has 0 or more
\* than 10 entries; otherwise it leaves an ETF with total supply 0, the
\* signer as lister and the token list as given; every ETF that exists has
\* 1 to 10 tokens.
C12_Original ==
  /\ OwnInitialize =>
       IF CountInRange(last.list) THEN Created
       ELSE last.err = "InvalidTokenCount" /\ NothingChanged
  /\ AllCountsInRange

\* The lister has no ETF yet and holds the rent its account needs.
CanCreate ==
  /\ ~Pre.etf[last.etf].live
  /\ Pre.lamports[last.signer] >= MinRent - Pre.etf_lamports[last.etf]

\* C12, amended: the same for a lister that has no ETF yet and can pay the
\* account's rent; while the lister's ETF exists, initialize_etf fails
\* whatever the token list is, and changes nothing.
C12_CreateValidation ==
  /\ (OwnInitialize /\ CanCreate) =>
       IF CountInRange(last.list) THEN Created
       ELSE last.err = "InvalidTokenCount" /\ NothingChanged
  /\ (OwnInitialize /\ Pre.etf[last.etf].live) =>
       (last.err = "AccountAlreadyInUse" /\ NothingChanged)
  /\ AllCountsInRange

\* An initialize_etf with one token more than the limit was turned down.
C12_Witness ==
  /\ OwnInitialize /\ CanCreate
  /\ Len(last.list) = MaxTokenCount + 1
  /\ last.err = "InvalidTokenCount"

\* An ETF with a repeated token address was created.
C12_WitnessDuplicate ==
  /\ OwnInitialize /\ Created
  /\ last.list = <<1, 1>>

\* --------------------------------------------------------------------- C13
\* What selling, right after the buy in last, all the tokens that buy minted
\* would do: the same investor, the ETF's lister and DEV_WALLET as accounts.
SellBack ==
  sell_etf(Begin(World), last.etf, last.signer, Pre.etf[last.etf].lister,
           DEV_WALLET, BuyFees(last.amount).sol_after_fees)

\* C13: after a successful buy of amount a, the sell of the
\* n = a - 2*floor(a/200) tokens it minted succeeds, pays the investor
\* n - 2*floor(n/200), and puts the total supply and the ETF account's
\* lamports back to what they were before the buy; for a = 1_000_000_000 the
\* investor gets 980_100_000 back and 19_900_000 are lost to fees.
C13_RoundTrip ==
  /\ Succeeded("buy_etf") =>
       LET a == last.amount
           f == last.etf
           n == a - 2 * Floor200(a)
           back == n - 2 * Floor200(n)
           r == SellBack
       IN
       /\ a > 0
       /\ r.err = Ok
       /\ r.w.etf[f].total_supply = Pre.etf[f].total_supply
       /\ r.w.etf_lamports[f] = Pre.etf_lamports[f]
       /\ r.w.etf = Pre.etf
       /\ \A x \in Wallets :
            r.w.lamports[x] =
              Pre.lamports[x] - If(x, last.signer, a - back)
              + If(x, Pre.etf[f].lister, Floor200(a) + Floor200(n))
              + If(x, DEV_WALLET, Floor200(a) + Floor200(n))
  /\ SellFees(BuyFees(1000000000).sol_after_fees).sol_after_fees = 980100000
  /\ 1000000000
       - SellFees(BuyFees(1000000000).sol_after_fees).sol_after_fees = 19900000

\* An investor sold all the tokens of the buy before, both carrying fees,
\* and the ETF is back at no supply and its rent.
C13_Witness ==
  /\ Succeeded("sell_etf")
  /\ last.amount = Net(AmountBig)
  /\ Len(Pre.log) > 1
  /\ \E i \in DOMAIN Pre.log[Len(Pre.log)] :
       /\ Pre.log[Len(Pre.log)][i].kind = "TokenPurchase"
       /\ Pre.log[Len(Pre.log)][i].who = last.signer
  /\ Pre.etf[last.etf].total_supply = Net(AmountBig)
  /\ etf[last.etf].total_supply = 0
  /\ etf_lamports[last.etf] = MinRent
  /\ Floor200(last.amount) > 0

\* --------------------------------------------------------------------- C14
\* A buy below the fee threshold went through.
ZeroFeeBuy == Succeeded("buy_etf") /\ last.amount < FeeDivisor
FeeEvents == SelectSeq(LastEvents, LAMBDA e : e.kind = "FeeTransfer")
\* The buy moved the whole amount from the investor to the ETF account and
\* nothing to the lister or the dev wallet.
WholeAmountInvested ==
  /\ BuyFees(last.amount).creator_fee = 0
  /\ BuyFees(last.amount).dev_fee = 0
  /\ BuyFees(last.amount).sol_after_fees = last.amount
  /\ etf_lamports[last.etf] = Pre.etf_lamports[last.etf] + last.amount
  /\ etf[last.etf].total_supply = Pre.etf[last.etf].total_supply + last.amount
  /\ \A x \in Wallets :
       lamports[x] = Pre.lamports[x] - If(x, last.signer, last.amount)

\* C14, as claimed: a successful buy of less than 200 has both fees 0, mints
\* the whole amount, moves no fee and emits no FeeTransferEvent.
C14_Original ==
  ZeroFeeBuy => (WholeAmountInvested /\ Len(FeeEvents) = 0)

\* C14, amended: a successful buy of less than 200 has both fees 0, mints
\* the whole amount and changes no balance but the investor's and the ETF
\* account's; it still emits its two FeeTransferEvents, one Creator and one
\* Dev, each with amount 0.
C14_ZeroFeeBuy ==
  ZeroFeeBuy =>
    /\ WholeAmountInvested
    /\ Len(FeeEvents) = 2
    /\ FeeEvents[1].fee_type = "Creator" /\ FeeEvents[1].amount = 0
    /\ FeeEvents[2].fee_type = "Dev" /\ FeeEvents[2].amount = 0

\* A buy of AmountSmall, below the threshold, went through.
C14_Witness ==
  /\ ZeroFeeBuy
  /\ last.amount = AmountSmall
  /\ lamports[DEV_WALLET] = Pre.lamports[DEV_WALLET]

\* --------------------------------------------------------------------- C15
PurchaseEventsOfLast ==
  SelectSeq(LastEvents, LAMBDA e : e.kind = "TokenPurchase")
RECURSIVE SumAmounts(_)
SumAmounts(es) ==
  IF Len(es) = 0 THEN 0 ELSE Head(es).amount + SumAmounts(Tail(es))

\* C15: a successful buy emits exactly one TokenPurchaseEvent per token of
\* the ETF, in the ETF's order, with the percentage given for that position
\* and the exact floor(sol_after_fees * percentage / 100); each amount and
\* their sum are at most sol_after_fees, and the sum falls short of it by
\* at most the number of tokens minus one.
C15_Allocation ==
  Succeeded("buy_etf") =>
    LET tokens == Pre.etf[last.etf].token_addresses
        net == last.amount - 2 * Floor200(last.amount)
        es == PurchaseEventsOfLast
    IN /\ Len(es) = Len(tokens)
       /\ \A i \in DOMAIN es :
            /\ es[i].token_address = tokens[i]
            /\ es[i].who = last.signer
            /\ es[i].etf_address = last.etf
            /\ es[i].percentage = last.list[i]
            /\ es[i].amount = (net * last.list[i]) \div PercentTotal
            /\ es[i].amount <= net
       /\ SumAmounts(es) <= net
       /\ net - SumAmounts(es) <= Len(tokens) - 1
       \* the purchase events close the transaction's batch, after the fees
       /\ \A i \in DOMAIN LastEvents :
            LastEvents[i].kind = "TokenPurchase" <=> i > 2

\* A buy over two tokens whose floors leave one lamport unallocated.
C15_Witness ==
  /\ Succeeded("buy_etf")
  /\ last.list = <<33, 67>>
  /\ Len(PurchaseEventsOfLast) = 2
  /\ SumAmounts(PurchaseEventsOfLast) = last.amount - 2 * Floor200(last.amount) - 1

\* A buy over ten tokens emitted ten purchase events.
C15_WitnessTen ==
  /\ Succeeded("buy_etf")
  /\ Len(PurchaseEventsOfLast) = MaxTokenCount
  /\ last.amount = AmountBig

\* --------------------------------------------------------------------- C16
FeeCharged == Succeeded("buy_etf") \/ Succeeded("sell_etf")
\* What the two fee events of the transaction report together.
TotalFeeOfLast == FeeEvents[1].amount + FeeEvents[2].amount

\* C16, as claimed: the creator fee and the dev fee of every successful buy
\* or sell of quantity q add up to floor(q / 100).
C16_Original ==
  FeeCharged => TotalFeeOfLast = last.amount \div PercentTotal

\* C16, amended: the two fees of every successful buy or sell of quantity q
\* are floor(q / 200) each, so they add up to 2 * floor(q / 200): that is
\* floor(q / 100) when q mod 200 < 100 and one less otherwise, never more
\* than one per cent; the dev wallet receives exactly its half.
C16_TotalFee ==
  FeeCharged =>
    LET q == last.amount IN
      /\ Len(FeeEvents) = 2
      /\ FeeEvents[1].amount = q \div FeeDivisor
      /\ FeeEvents[2].amount = q \div FeeDivisor
      /\ TotalFeeOfLast = 2 * (q \div FeeDivisor)
      /\ TotalFeeOfLast =
           (q \div PercentTotal) - (IF q % FeeDivisor < PercentTotal THEN 0 ELSE 1)
      /\ TotalFeeOfLast * PercentTotal <= q
      /\ lamports[DEV_WALLET] = Pre.lamports[DEV_WALLET] + (q \div FeeDivisor)

\* A sell of Net(AmountMid) = 198 tokens was charged nothing, one less than
\* one per cent of it.
C16_Witness ==
  /\ Succeeded("sell_etf")
  /\ last.amount = Net(AmountMid)
  /\ TotalFeeOfLast = (last.amount \div PercentTotal) - 1

\* A buy of AmountBig was charged exactly one per cent, rounded down.
C16_WitnessExact ==
  /\ Succeeded("buy_etf")
  /\ last.amount = AmountBig
  /\ TotalFeeOfLast = last.amount \div PercentTotal
  /\ TotalFeeOfLast > 0

\* --------------------------------------------------------------------- C17
\* The transactions of Spec keep total_supply at the ETF account's lamports
\* above its rent, far below U64Max, so none of them takes the None branch of
\* the checked_add of buy_etf. OverflowSpec examines that branch: buy_etf as
\* a function of the stored total_supply, which it draws from the top of the
\* u64 range.
OverflowSupplies == {U64Max - AmountMid, U64Max - AmountSmall, U64Max}

OverflowInit ==
  /\ lamports = [a \in Wallets |->
                   IF a \in Listers THEN StartLamports
                   ELSE IF a = DEV_WALLET THEN 0 ELSE InvestorLamports]
  /\ etf_lamports = [f \in Listers |-> MinRent]
  /\ \E t \in {TokenList(1), TokenList(2)}, s \in OverflowSupplies :
       /\ etf = [f \in Listers |->
                   [live |-> TRUE, lister |-> f, token_addresses |-> t,
                    total_supply |-> s, accumulated_fees |-> 0]]
       /\ minted = [f \in Listers |-> s]
       /\ minted_to = [x \in Signers |-> IF x \in Listers THEN s ELSE 0]
  /\ log = <<>>
  /\ last = NoCall
  /\ burned = [f \in Listers |-> 0]
  /\ redeemed_by = [x \in Signers |-> 0]

OverflowNext ==
  \/ \E f \in Listers, s \in Signers, l \in Signers, d \in FeeWallets,
        q \in BuyAmounts, p \in PercentageLists : BuyEtf(f, s, l, d, q, p)
  \/ Return

OverflowSpec == OverflowInit /\ [][OverflowNext]_vars

\* The buy in last would take total_supply beyond the u64.
MintOverflows ==
  /\ OnLiveEtf("buy_etf")
  /\ Pre.etf[last.etf].total_supply
       + (last.amount - 2 * Floor200(last.amount)) > U64Max
\* The buy in last gets as far as its checked_add.
ReachesMint ==
  /\ EarlierChecksPass
  /\ FeeAddressesValid
  /\ Pre.lamports[last.signer] >= last.amount

C17_WitnessBoundary ==
  /\ Succeeded("buy_etf")
  /\ etf[last.etf].total_supply = U64Max
  /\ last.amount > 0

\* --------------------------------------------------------------------- C18
\* The sell in last met the three requirements that precede its checked_sub.
SellPreconditions ==
  /\ OnLiveEtf("sell_etf")
  /\ last.amount > 0
  /\ Pre.etf[last.etf].total_supply >= last.amount
  /\ Pre.etf_lamports[last.etf] >= last.amount + MinRent

\* C18: the checked_sub of a sell that met its requirements never fails: the
\* sell does not end in the InvalidAmount of its ok_or, it succeeds whenever
\* the fee accounts are the right ones, and it leaves total_supply at the
\* exact difference; no sell of a positive amount ends in InvalidAmount.
C18_SubNeverFails ==
  /\ SellPreconditions =>
       /\ last.err # "InvalidAmount"
       /\ FeeAddressesValid => last.err = Ok
       /\ last.err = Ok =>
            /\ etf[last.etf].total_supply =
                 Pre.etf[last.etf].total_supply - last.amount
            /\ etf[last.etf].total_supply >= 0
  /\ (OnLiveEtf("sell_etf") /\ last.err = "InvalidAmount") => last.amount = 0

\* A sell of the whole supply, the subtraction's edge, went through.
C18_Witness ==
  /\ SellPreconditions
  /\ Succeeded("sell_etf")
  /\ Pre.etf[last.etf].total_supply = last.amount
  /\ etf[last.etf].total_supply = 0

\* --------------------------------------------------------------------- C19
\* The ETF account f existed before the transaction in last and exists
\* after it.
StaysLive(f) == last.op # "none" /\ Pre.etf[f].live /\ etf[f].live

\* C19: whatever transaction ran, succeeding or failing, an ETF account that
\* exists before and after it has the same lister and the same
\* token_addresses, in content, order and length; a buy or a sell never
\* begins or ends the account's existence.
C19_Immutable ==
  /\ \A f \in Listers :
       StaysLive(f) =>
         /\ etf[f].lister = Pre.etf[f].lister
         /\ etf[f].token_addresses = Pre.etf[f].token_addresses
         /\ Len(etf[f].token_addresses) = Len(Pre.etf[f].token_addresses)
  /\ last.op \in {"buy_etf", "sell_etf"} =>
       \A f \in Listers :
         /\ etf[f].live = Pre.etf[f].live
         /\ etf[f].lister = Pre.etf[f].lister
         /\ etf[f].token_addresses = Pre.etf[f].token_addresses

\* A successful sell on an ETF of two tokens, bought into before.
C19_Witness ==
  /\ Succeeded("sell_etf")
  /\ StaysLive(last.etf)
  /\ Len(etf[last.etf].token_addresses) = 2
  /\ etf[last.etf].total_supply # Pre.etf[last.etf].total_supply

\* An initialize_etf with another token list was refused on a live ETF.
C19_WitnessReinit ==
  /\ Rejected("initialize_etf")
  /\ StaysLive(last.etf)
  /\ last.signer = last.etf
  /\ last.list # etf[last.etf].token_addresses
  /\ Len(last.list) = 1

\* --------------------------------------------------------------------- C20
\* Some transaction recorded in lg closed the ETF account f.
ClosedOnce(lg, f) ==
  \E i \in DOMAIN lg : \E j \in DOMAIN lg[i] :
    lg[i][j].kind = "ETFClosed" /\ lg[i][j].etf_address = f
OnEtf == last.op \in {"buy_etf", "sell_etf", "close_etf"}

\* C20, as claimed: once an ETF account has been closed it never exists
\* again, its total_supply stays unwritten, and every later buy, sell or
\* close on it fails.
C20_Original ==
  /\ \A f \in Listers :
       ClosedOnce(log, f) => (~etf[f].live /\ etf[f].total_supply = 0)
  /\ (OnEtf /\ ClosedOnce(Pre.log, last.etf)) => last.err # Ok

\* C20, amended: a successful close leaves no ETF account, and while the
\* account does not exist every buy, sell or close on it fails with
\* AccountNotInitialized and changes nothing, so total_supply is not
\* written; but after a close the lister can initialize the ETF again at the
\* same address, as a new account with the token list then given and a
\* total_supply of 0.
C20_ClosedUntilRecreated ==
  /\ \A f \in Listers :
       ~etf[f].live => (etf[f] = ClosedETF /\ etf_lamports[f] = 0)
  /\ Succeeded("close_etf") =>
       /\ ~etf[last.etf].live
       /\ ClosedOnce(log, last.etf)
  /\ (OnEtf /\ ~Pre.etf[last.etf].live) =>
       /\ last.err = "AccountNotInitialized"
       /\ NothingChanged
  /\ (Succeeded("initialize_etf") /\ ClosedOnce(Pre.log, last.etf)) =>
       /\ ~Pre.etf[last.etf].live
       /\ etf[last.etf].live
       /\ etf[last.etf].lister = last.signer
       /\ etf[last.etf].token_addresses = last.list
       /\ etf[last.etf].total_supply = 0

\* A buy on an ETF account closed earlier was refused.
C20_Witness ==
  /\ Rejected("buy_etf")
  /\ ClosedOnce(Pre.log, last.etf)
  /\ ~Pre.etf[last.etf].live
  /\ last.amount > 0
  /\ last.dev_wallet = DEV_WALLET

\* An ETF closed earlier exists again, with another token list.
C20_WitnessRecreated ==
  /\ Succeeded("initialize_etf")
  /\ ClosedOnce(Pre.log, last.etf)
  /\ etf[last.etf].live
  /\ Len(etf[last.etf].token_addresses) = MaxTokenCount

\* --------------------------------------------------------------------- C21
\* C21: the tokens a signer has sold in its successful sells never exceed
\* the tokens its own successful buys minted, so a signer that never bought
\* gets no lamports out of an ETF account by selling.
C21_RedeemWithinMinted ==
  /\ \A s \in Signers : redeemed_by[s] <= minted_to[s]
  /\ (Succeeded("sell_etf") /\ minted_to[last.signer] = 0) =>
       lamports[last.signer] <= Pre.lamports[last.signer]

\* --------------------------------------------------------------------- C22
\* What the ETF account f of world w holds beyond its total_supply.
Surplus(w, f) == w.etf_lamports[f] - w.etf[f].total_supply
\* Selling, in the present state, the whole supply of f, signed by s.
SellAll(f, s) ==
  sell_etf(Begin(World), f, s, etf[f].lister, DEV_WALLET, etf[f].total_supply)

\* C22: for every live ETF, lamports minus total_supply is the same before
\* and after every transaction and equals what it was at creation, the rent
\* minimum; so the account always holds total_supply plus the rent minimum,
\* no sell of 0 < s <= total_supply fails with InsufficientFunds, and from
\* every state with tokens outstanding one sell of the whole supply, by any
\* signer, leads to a total_supply of 0 where close_etf passes its checks.
C22_FullBacking ==
  /\ \A f \in Listers :
       etf[f].live =>
         /\ Surplus(World, f) = MinRent
         /\ etf_lamports[f] >= etf[f].total_supply + MinRent
         /\ (last.op # "none" /\ Pre.etf[f].live) =>
              Surplus(World, f) = Surplus(Pre, f)
         /\ etf[f].total_supply > 0 =>
              \A s \in Signers :
                /\ SellAll(f, s).err = Ok
                /\ SellAll(f, s).w.etf[f].total_supply = 0
                /\ CloseChecks(SellAll(f, s).w, f, etf[f].lister) = Ok
  /\ (Succeeded("initialize_etf")) => Surplus(World, last.etf) = MinRent
  /\ ( /\ OnLiveEtf("sell_etf")
       /\ last.amount > 0
       /\ last.amount <= Pre.etf[last.etf].total_supply ) =>
       /\ last.err # "InsufficientFunds"
       /\ FeeAddressesValid => last.err = Ok

\* After a buy that was charged fees, a sell of part of the supply went
\* through, tokens remain outstanding and the surplus is the rent.
C22_Witness ==
  /\ Succeeded("sell_etf")
  /\ last.amount < Pre.etf[last.etf].total_supply
  /\ etf[last.etf].total_supply > 0
  /\ Pre.lamports[DEV_WALLET] > 0
  /\ Surplus(World, last.etf) = MinRent
  /\ Surplus(Pre, last.etf) = MinRent
====
